---- MODULE Spec2Model ----
(***************************************************************************)
(* A model of bogoDB/candidate_submission/optimize_graph.py: the          *)
(* constraint verifier, the base pruning pass, the edge-swap perturbation *)
(* and the simulated-annealing loop of optimize_graph, and the __main__   *)
(* driver that saves the result.                                          *)
(*                                                                         *)
(* A graph is a Python dict of dicts: here a function from its keys (node *)
(* ids; the JSON keys "0", "1", ... are written 0, 1, ...) to a function  *)
(* from target ids to weights.  Dict insertion order is not kept: where   *)
(* the code depends on it (the stable sort and the first minimum of the   *)
(* pruning pass) every order is a possible input.                         *)
(*                                                                         *)
(* random.* draws and the external random-walk simulator are              *)
(* nondeterministic choices.  The sampling weights (edge_weight_dict) are *)
(* all > 0, so every listed candidate can be drawn.                       *)
(*                                                                         *)
(* Spec is the run of optimize_graph with graphs as values.  SpecVerify,  *)
(* SpecMetrics and SpecScore call verify_constraints, get_metrics and     *)
(* calculate_score alone on wider inputs.  SpecObjects is the run with    *)
(* the dicts as objects, for what the copies share.                       *)
(***************************************************************************)
EXTENDS Integers, Sequences, FiniteSets, TLC

\* ------------------------------------------------------------ configuration

\* scripts.constants.NUM_NODES: the fixed node count N, instantiated small.
NUM_NODES == 2

Nodes == 0 .. (NUM_NODES - 1)

\* Edge weights an input file gives in the annealing runs: 0 is not a legal
\* weight (weight <= 0), 5 is.
RunWeights == {0, 5}

\* Values of optimize_graph's parameters max_total_edges and max_edges_per_node.
MaxTotalEdgesBound == 3
MaxEdgesPerNodeBound == 2

\* Simulated annealing parameters.  TEMPERATURE, COOLING_RATE and
\* MIN_TEMPERATURE are exact rationals num/den.
TEMPERATURE_NUM == 1
TEMPERATURE_DEN == 1
COOLING_RATE_NUM == 7
COOLING_RATE_DEN == 10
MIN_TEMPERATURE_NUM == 1
MIN_TEMPERATURE_DEN == 100
\* MAX_ITERATIONS, scaled down.
MAX_ITERATIONS == 3
\* random.randint(10, 50), scaled down.
MIN_SWAPS == 1
MAX_SWAPS == 2

\* ------------------------------------------------------------ dict helpers

\* del d[k]
DictDel(d, k) == [x \in (DOMAIN d) \ {k} |-> d[x]]

\* d[k] = v
DictSet(d, k, v) == [x \in (DOMAIN d) \cup {k} |-> IF x = k THEN v ELSE d[x]]

\* len(d)
DictLen(d) == Cardinality(DOMAIN d)

\* All dicts with keys among K and values in V.
Dicts(K, V) == UNION {[D -> V] : D \in SUBSET K}

RECURSIVE SumLens(_, _)
\* sum(len(edges) for edges in graph.values()), over the keys in S
SumLens(graph, S) ==
    IF S = {} THEN 0
    ELSE LET n == CHOOSE x \in S : TRUE
         IN DictLen(graph[n]) + SumLens(graph, S \ {n})

\* sum(len(edges) for edges in graph.values())
TotalEdges(graph) == SumLens(graph, DOMAIN graph)

\* max(len(edges) for edges in graph.values()); graph has a key
MaxNodeEdges(graph) ==
    CHOOSE m \in {DictLen(graph[n]) : n \in DOMAIN graph} :
        \A n \in DOMAIN graph : DictLen(graph[n]) <= m

\* The edges of a graph as (source, target, weight) triples.
EdgeSet(graph) ==
    UNION {{<<n, t, graph[n][t]>> : t \in DOMAIN graph[n]} : n \in DOMAIN graph}

\* ------------------------------------------------------- verify_constraints

\* max() of an empty sequence raises ValueError: the graph has no key and
\* the total-edge check (0 > max_total_edges) did not return first.
VerifyRaises(graph, max_edges_per_node, max_total_edges) ==
    /\ ~(TotalEdges(graph) > max_total_edges)
    /\ DOMAIN graph = {}

\* verify_constraints with "weight < 0" for "weight <= 0".
verify_constraints_zero_weight(graph, max_edges_per_node, max_total_edges) ==
    IF TotalEdges(graph) > max_total_edges THEN FALSE
    ELSE IF MaxNodeEdges(graph) > max_edges_per_node THEN FALSE
    ELSE IF Cardinality(DOMAIN graph) # NUM_NODES THEN FALSE
    ELSE IF \E node \in DOMAIN graph : \E target \in DOMAIN graph[node] :
                graph[node][target] < 0 \/ graph[node][target] > 10
         THEN FALSE
    ELSE TRUE

\* verify_constraints(graph, max_edges_per_node, max_total_edges), when it
\* returns: the four checks in the code's order.
verify_constraints(graph, max_edges_per_node, max_total_edges) ==
    IF TotalEdges(graph) > max_total_edges THEN FALSE
    ELSE IF MaxNodeEdges(graph) > max_edges_per_node THEN FALSE
    ELSE IF Cardinality(DOMAIN graph) # NUM_NODES THEN FALSE
    ELSE IF \E node \in DOMAIN graph : \E target \in DOMAIN graph[node] :
                graph[node][target] <= 0 \/ graph[node][target] > 10
         THEN FALSE
    ELSE TRUE

\* ------------------------------------------------ get_metrics, calculate_score

\* float("inf"); path lengths are > 0
Inf == -1

\* Path lengths the simulator reports (r["median_path_length"]).
PathLengths == {1, 2}

\* Most per-query records run_queries returns in one evaluation.
MaxRecords == 1

\* Most per-query records in a call of get_metrics alone.
MaxCallRecords == 3

\* One record of detailed_results: the success flag (r["success"] or
\* r["is_success"]) and r.get("median_path_length", inf).
Records == [success : BOOLEAN, median_path_length : PathLengths \cup {Inf}]

RECURSIVE SeqsUpTo(_, _)
\* The sequences over S of length <= n.
SeqsUpTo(S, n) ==
    IF n = 0 THEN {<<>>}
    ELSE LET shorter == SeqsUpTo(S, n - 1)
         IN shorter \cup {Append(q, x) : q \in shorter, x \in S}

\* What the simulator may return as detailed_results.
DetailedResults == SeqsUpTo(Records, MaxRecords)

RECURSIVE Factorial(_)
Factorial(n) == IF n <= 1 THEN 1 ELSE n * Factorial(n - 1)

\* A rate k/len is kept as the integer k * RateScale / len, for every len a
\* call is given (MaxRecords <= MaxCallRecords).
RateScale == Factorial(MaxCallRecords)

RECURSIVE SortAscending(_)
\* sorted(s)
SortAscending(s) ==
    IF s = <<>> THEN <<>>
    ELSE LET i == CHOOSE i \in 1 .. Len(s) : \A j \in 1 .. Len(s) : s[i] <= s[j]
         IN <<s[i]>> \o SortAscending(SubSeq(s, 1, i - 1) \o SubSeq(s, i + 1, Len(s)))

\* statistics.median(lengths), doubled: the middle value, or the mean of the
\* two middle values.
Median2(lengths) ==
    LET sorted == SortAscending(lengths)
        n == Len(sorted)
    IN IF n % 2 = 1 THEN 2 * sorted[(n + 1) \div 2]
       ELSE sorted[n \div 2] + sorted[(n \div 2) + 1]

\* get_metrics with the path lengths of all records, successful or not.
get_metrics_all_lengths(details) ==
    LET success == Cardinality({i \in 1 .. Len(details) : details[i].success})
        rate == IF details # <<>> THEN (success * RateScale) \div Len(details) ELSE 0
        lengths == SelectSeq([i \in 1 .. Len(details) |-> details[i]],
                             LAMBDA r : r.median_path_length # Inf)
        median == IF lengths # <<>>
                  THEN Median2([i \in 1 .. Len(lengths) |-> lengths[i].median_path_length])
                  ELSE Inf
    IN <<rate, median>>

\* get_metrics(graph, queries), from the detailed_results the simulator gave:
\* (rate, median); the median doubled, or Inf.
get_metrics(details) ==
    LET success == Cardinality({i \in 1 .. Len(details) : details[i].success})
        rate == IF details # <<>> THEN (success * RateScale) \div Len(details) ELSE 0
        lengths == SelectSeq([i \in 1 .. Len(details) |-> details[i]],
                             LAMBDA r : r.success /\ r.median_path_length # Inf)
        median == IF lengths # <<>>
                  THEN Median2([i \in 1 .. Len(lengths) |-> lengths[i].median_path_length])
                  ELSE Inf
    IN <<rate, median>>

\* np.log1p(a / b) in thousandths, a and b doubled medians (2, 3 or 4):
\* ln 1.5, ln 5/3, ln 1.75, ln 2, ln 7/3, ln 2.5, ln 3.
Log1pMilli(a, b) ==
    CASE a * 2 = b -> 405
      [] a * 3 = b * 2 -> 511
      [] a * 4 = b * 3 -> 560
      [] a = b -> 693
      [] a * 3 = b * 4 -> 847
      [] a * 2 = b * 3 -> 916
      [] a = b * 2 -> 1099

\* calculate_score with the multiplier alone, without the "1 +".
calculate_score_multiplier_only(optimized_rate, optimized_median, initial_median) ==
    IF optimized_rate = 0 THEN 0
    ELSE IF initial_median = Inf \/ optimized_median = Inf
         THEN optimized_rate * 1000
    ELSE optimized_rate * Log1pMilli(initial_median, optimized_median)

\* calculate_score, from the metrics of the new graph and the baseline
\* median; in units of 1 / (1000 * RateScale).
calculate_score(optimized_rate, optimized_median, initial_median) ==
    IF optimized_rate = 0 THEN 0
    ELSE IF initial_median = Inf \/ optimized_median = Inf
         THEN optimized_rate * 1000
    ELSE optimized_rate * (1000 + Log1pMilli(initial_median, optimized_median))

\* What the simulator returns in the annealing runs: every path it finds
\* has 2 hops.
RunDetailedResults ==
    {d \in DetailedResults :
        \A i \in 1 .. Len(d) : d[i].median_path_length \in {2, Inf}}

\* The (rate, median) pairs get_metrics may return in the annealing runs.
RunMetrics == {get_metrics(d) : d \in RunDetailedResults}

\* -------------------------------------------------------------------- state

VARIABLES
    initial_graph,       \* the input graph; initial_edges is its copy
    max_total_edges,     \* parameter of optimize_graph
    max_edges_per_node,  \* parameter of optimize_graph
    max_iterations,      \* the iteration budget (MAX_ITERATIONS, or 0)
    optimized_graph,     \* the pruned copy, at the end the returned graph
    initial_median,      \* baseline median of get_metrics(initial_graph)
    current_graph, current_score,
    best_graph, best_score,
    temperature,         \* <<num, den>>
    iteration,           \* the loop variable of the annealing loop
    new_graph,           \* modify_graph's new_graph, then the loop's
    num_swaps, swaps,    \* modify_graph: the drawn count, the swaps done
    pc,                  \* where the run is
    warned,              \* the final WARNING was printed
    output_file,         \* what save_graph wrote
    start_graph,         \* history: the graph handed to the loop
    start_score,         \* history: the score computed for it before the loop
    accepted_max,        \* history: the largest of start_score and the
                         \*   scores of the accepted candidates
    accepted_max_graph,  \* history: the graph that was current when
                         \*   accepted_max was first reached
    v_graph, v_result,   \* a call of verify_constraints alone, and its result
    new_score,           \* the loop's new_score: the score of the last candidate
    f_args, f_result,    \* a call of get_metrics or calculate_score alone
    heap, refs           \* the dict objects, and the inner dicts each name holds

vars == <<initial_graph, max_total_edges, max_edges_per_node, max_iterations,
          optimized_graph, initial_median, current_graph, current_score,
          best_graph, best_score, temperature, iteration, new_graph,
          num_swaps, swaps, pc, warned, output_file, start_graph,
          start_score, accepted_max, accepted_max_graph, v_graph, v_result,
          new_score, f_args, f_result, heap, refs>>

\* A dict not assigned yet, a score not computed yet.
NoGraph == <<>>
NoScore == -1

\* The input graphs of the annealing runs: keys among the node ids, targets
\* among the node ids (node_weights has no other key).
InitialGraphs == UNION {[K -> Dicts(Nodes, RunWeights)] : K \in SUBSET Nodes}

\* ---------------------------------------------------------- base pruning

RECURSIVE Perms(_)
\* The orders of the keys S, as sequences.
Perms(S) ==
    IF S = {} THEN {<<>>}
    ELSE UNION {{<<x>> \o q : q \in Perms(S \ {x})} : x \in S}

\* sorted(keys, key=len(graph[n]), reverse=True): the sort is stable, so keys
\* of equal length keep the dict's order, which is any order.
NodesByEdgeCount(graph) ==
    {q \in Perms(DOMAIN graph) :
        \A i \in 1 .. Len(q) : \A j \in i .. Len(q) :
            DictLen(graph[q[i]]) >= DictLen(graph[q[j]])}

\* min(edges.items(), key=weight): the first edge of minimum weight in the
\* dict's order, which is any order.
MinEdges(edges) ==
    {t \in DOMAIN edges : \A u \in DOMAIN edges : edges[t] <= edges[u]}

RECURSIVE PruneAlong(_, _, _, _, _)
\* The for loop over nodes_by_edge_count from position i on.
PruneAlong(graph, order, i, removed, edges_to_remove) ==
    IF i > Len(order) \/ removed >= edges_to_remove THEN {graph}
    ELSE LET node == order[i]
         IN IF DictLen(graph[node]) > 1
            THEN UNION {PruneAlong(DictSet(graph, node, DictDel(graph[node], t)),
                                   order, i + 1, removed + 1, edges_to_remove)
                        : t \in MinEdges(graph[node])}
            ELSE PruneAlong(graph, order, i + 1, removed, edges_to_remove)

\* The graphs the base solution may leave in optimized_graph.
PruneResults(graph, max_total) ==
    LET total_edges == TotalEdges(graph)
    IN IF total_edges > max_total
       THEN UNION {PruneAlong(graph, order, 1, 0, total_edges - max_total)
                   : order \in NodesByEdgeCount(graph)}
       ELSE {graph}

\* ------------------------------------------------------- swap_single_edge

\* RemovableEdges with "len(edges) >= 1": the last edge of a node counts too.
RemovableEdgesLastToo(graph) ==
    {<<node, target>> \in (DOMAIN graph) \X Nodes :
        DictLen(graph[node]) >= 1 /\ target \in DOMAIN graph[node]}

\* removable_edges: the edges of nodes with more than one edge
RemovableEdges(graph) ==
    {<<node, target>> \in (DOMAIN graph) \X Nodes :
        DictLen(graph[node]) > 1 /\ target \in DOMAIN graph[node]}

\* PossibleEdges with a node counted as full one edge early.
PossibleEdgesFullEarly(graph) ==
    {<<node, target>> \in (DOMAIN initial_graph) \X Nodes :
        /\ ~(DictLen(graph[node]) + 1 >= max_edges_per_node)
        /\ target \in DOMAIN initial_graph[node]
        /\ target \notin DOMAIN graph[node]}

\* possible_edges: the edges of initial_edges that are not in the graph and
\* whose node has fewer than max_edges_per_node edges
PossibleEdges(graph) ==
    {<<node, target>> \in (DOMAIN initial_graph) \X Nodes :
        /\ ~(DictLen(graph[node]) >= max_edges_per_node)
        /\ target \in DOMAIN initial_graph[node]
        /\ target \notin DOMAIN graph[node]}

\* AddEdge with the weight 1 for the weight of initial_edges.
AddEdgeUnitWeight(graph) ==
    IF PossibleEdges(graph) # {}
    THEN {DictSet(graph, e[1], DictSet(graph[e[1]], e[2], 1))
          : e \in PossibleEdges(graph)}
    ELSE {graph}

\* The edge added after a removal: one of possible_edges, with the weight it
\* has in initial_edges; none when possible_edges is empty.
AddEdge(graph) ==
    IF PossibleEdges(graph) # {}
    THEN {DictSet(graph, e[1], DictSet(graph[e[1]], e[2], initial_graph[e[1]][e[2]]))
          : e \in PossibleEdges(graph)}
    ELSE {graph}

\* swap_single_edge without the removal: an edge is added only.
swap_single_edge_add_only(graph) == AddEdge(graph)

\* The graphs swap_single_edge(graph) may return.
swap_single_edge(graph) ==
    IF RemovableEdges(graph) = {} THEN {graph}
    ELSE UNION {AddEdge(DictSet(graph, e[1], DictDel(graph[e[1]], e[2])))
                : e \in RemovableEdges(graph)}

\* ------------------------------------------------------------ modify_graph

\* ModifyKeeps without the revert: the swapped graph is kept as it is.
ModifyKeepsSwapped(graph, swapped) == swapped

\* What modify_graph does with a swapped graph: "if not verify_constraints
\* (new_graph, ...): return graph", else it goes on with new_graph.
ModifyKeeps(graph, swapped) ==
    IF ~verify_constraints(swapped, max_edges_per_node, max_total_edges)
    THEN graph
    ELSE swapped

\* ---------------------------------------------------------- annealing loop

\* temperature *= COOLING_RATE
Cool(t) == <<t[1] * COOLING_RATE_NUM, t[2] * COOLING_RATE_DEN>>

\* temperature < MIN_TEMPERATURE
BelowMin(t) == t[1] * MIN_TEMPERATURE_DEN < MIN_TEMPERATURE_NUM * t[2]

\* acceptance_prob = 1.0 if delta > 0 else np.exp(delta / temperature) is 1.0
\* for delta >= 0 and lies strictly between 0 and 1 for delta < 0.
AcceptanceProbIsOne(delta) == delta > 0 \/ delta = 0

\* random.random() against an acceptance_prob strictly between 0 and 1.
Draws == {"below", "notbelow"}

\* Accepted without the probability 1.0 of an improvement: the draw decides.
AcceptedByDrawOnly(delta, draw) == draw = "below"

\* random.random() < acceptance_prob
Accepted(delta, draw) == AcceptanceProbIsOne(delta) \/ draw = "below"

\* LoopContinues with one iteration too many.
LoopContinuesInclusive(i) == i <= max_iterations

\* "for iteration in range(MAX_ITERATIONS)": there is a next iteration.
LoopContinues(i) == i < max_iterations

\* CandidatePasses without the check.
CandidatePassesAlways(graph) == TRUE

\* "Skip if constraints not met": the loop's own check of the candidate.
CandidatePasses(graph) ==
    verify_constraints(graph, max_edges_per_node, max_total_edges)

\* FinalWarning without the final verification.
FinalWarningNever(graph) == FALSE

\* The final "Verify constraints": the WARNING is printed.
FinalWarning(graph) ==
    ~verify_constraints(graph, max_edges_per_node, max_total_edges)

\* The variables of the calls of single functions, and of the dict objects.
calls == <<v_graph, v_result, f_args, f_result>>
memory == <<heap, refs>>

\* The history variables.
history == <<start_graph, start_score, accepted_max, accepted_max_graph>>

\* BestAfter without the comparison: every accepted move becomes the best.
BestAfterAlways(score, graph, old_score, old_graph) == <<score, graph>>

\* BestAfter with ">=" for ">": a tie replaces the best graph.
BestAfterOnTie(score, graph, old_score, old_graph) ==
    IF score >= old_score THEN <<score, graph>> ELSE <<old_score, old_graph>>

\* "if current_score > best_score": the best pair after an accepted move.
BestAfter(score, graph, old_score, old_graph) ==
    IF score > old_score THEN <<score, graph>> ELSE <<old_score, old_graph>>

\* ------------------------------------------------------------------ actions

Init ==
    /\ initial_graph \in InitialGraphs
    /\ max_total_edges \in 1 .. MaxTotalEdgesBound
    /\ max_edges_per_node \in 1 .. MaxEdgesPerNodeBound
    /\ max_iterations \in {0, MAX_ITERATIONS}
    /\ optimized_graph = initial_graph
    /\ initial_median = Inf
    /\ current_graph = NoGraph /\ current_score = NoScore
    /\ best_graph = NoGraph /\ best_score = NoScore
    /\ temperature = <<TEMPERATURE_NUM, TEMPERATURE_DEN>>
    /\ iteration = 0
    /\ new_graph = NoGraph
    /\ num_swaps = 0 /\ swaps = 0
    /\ pc = "prune"
    /\ warned = FALSE
    /\ output_file = NoGraph
    /\ start_graph = NoGraph /\ start_score = NoScore
    /\ accepted_max = NoScore /\ accepted_max_graph = NoGraph
    /\ v_graph = NoGraph /\ v_result = "none"
    /\ new_score = NoScore
    /\ f_args = <<>> /\ f_result = <<>>
    /\ heap = <<>> /\ refs = <<>>

\* The base solution: prune edges while over max_total_edges.
Prune ==
    /\ pc = "prune"
    /\ optimized_graph' \in PruneResults(optimized_graph, max_total_edges)
    /\ pc' = "anneal"
    /\ UNCHANGED <<initial_graph, max_total_edges, max_edges_per_node,
                   max_iterations, initial_median, current_graph, current_score,
                   best_graph, best_score, temperature, iteration, new_graph,
                   num_swaps, swaps, warned, output_file, history, new_score,
                   calls, memory>>

\* The baseline metrics of initial_graph and the set-up of the loop.
StartAnnealing ==
    /\ pc = "anneal"
    /\ \E base \in RunMetrics, metrics \in RunMetrics :
          /\ initial_median' = base[2]
          /\ current_score' = calculate_score(metrics[1], metrics[2], base[2])
    /\ current_graph' = optimized_graph
    /\ best_graph' = current_graph'
    /\ best_score' = current_score'
    /\ start_graph' = optimized_graph
    /\ start_score' = current_score'
    /\ accepted_max' = current_score'
    /\ accepted_max_graph' = optimized_graph
    /\ temperature' = <<TEMPERATURE_NUM, TEMPERATURE_DEN>>
    /\ iteration' = 0
    /\ pc' = "loop"
    /\ UNCHANGED <<initial_graph, max_total_edges, max_edges_per_node,
                   max_iterations, optimized_graph, new_graph, num_swaps, swaps,
                   warned, output_file, new_score, calls, memory>>

\* The loop goes on: modify_graph(current_graph) copies the graph and draws
\* the number of swaps.
BeginModify ==
    /\ pc = "loop"
    /\ LoopContinues(iteration)
    /\ new_graph' = current_graph
    /\ num_swaps' \in MIN_SWAPS .. MAX_SWAPS
    /\ swaps' = 0
    /\ pc' = "swap"
    /\ UNCHANGED <<initial_graph, max_total_edges, max_edges_per_node,
                   max_iterations, optimized_graph, initial_median,
                   current_graph, current_score, best_graph, best_score,
                   temperature, iteration, warned, output_file, history,
                   new_score, calls, memory>>

\* One pass of modify_graph's loop: a swap, then the verifier; the batch
\* returns graph when the verifier fails, new_graph after the last swap.
SwapStep ==
    /\ pc = "swap"
    /\ \E swapped \in swap_single_edge(new_graph) :
          IF VerifyRaises(swapped, max_edges_per_node, max_total_edges)
          THEN /\ new_graph' = swapped
               /\ swaps' = swaps
               /\ pc' = "raised"
          ELSE /\ new_graph' = ModifyKeeps(current_graph, swapped)
               /\ IF verify_constraints(swapped, max_edges_per_node, max_total_edges)
                  THEN /\ swaps' = swaps + 1
                       /\ pc' = IF swaps + 1 = num_swaps THEN "evaluate" ELSE "swap"
                  ELSE /\ swaps' = swaps
                       /\ pc' = "evaluate"
    /\ UNCHANGED <<initial_graph, max_total_edges, max_edges_per_node,
                   max_iterations, optimized_graph, initial_median,
                   current_graph, current_score, best_graph, best_score,
                   temperature, iteration, num_swaps, warned, output_file,
                   history, new_score, calls, memory>>

\* "Cool down", then the break or the next iteration.
CoolDown ==
    /\ temperature' = Cool(temperature)
    /\ IF BelowMin(temperature')
       THEN pc' = "cooled" /\ iteration' = iteration
       ELSE pc' = "loop" /\ iteration' = iteration + 1

\* The candidate fails the verifier: continue.
Skip ==
    /\ pc = "evaluate"
    /\ ~CandidatePasses(new_graph)
    /\ iteration' = iteration + 1
    /\ pc' = "loop"
    /\ UNCHANGED <<initial_graph, max_total_edges, max_edges_per_node,
                   max_iterations, optimized_graph, initial_median,
                   current_graph, current_score, best_graph, best_score,
                   temperature, new_graph, num_swaps, swaps, warned,
                   output_file, history, new_score, calls, memory>>

\* The candidate is scored and accepted; the best pair follows; cool down.
Accept ==
    /\ pc = "evaluate"
    /\ CandidatePasses(new_graph)
    /\ \E metrics \in RunMetrics, draw \in Draws :
          /\ new_score' = calculate_score(metrics[1], metrics[2], initial_median)
          /\ Accepted(new_score' - current_score, draw)
    /\ current_graph' = new_graph
    /\ current_score' = new_score'
    /\ LET best == BestAfter(new_score', new_graph, best_score, best_graph)
       IN /\ best_score' = best[1]
          /\ best_graph' = best[2]
    /\ accepted_max' = IF new_score' > accepted_max
                       THEN new_score' ELSE accepted_max
    /\ accepted_max_graph' = IF new_score' > accepted_max
                             THEN new_graph ELSE accepted_max_graph
    /\ CoolDown
    /\ UNCHANGED <<initial_graph, max_total_edges, max_edges_per_node,
                   max_iterations, optimized_graph, initial_median, new_graph,
                   num_swaps, swaps, warned, output_file, start_graph,
                   start_score, calls, memory>>

\* The candidate is scored and rejected; cool down.
Reject ==
    /\ pc = "evaluate"
    /\ CandidatePasses(new_graph)
    /\ \E metrics \in RunMetrics, draw \in Draws :
          /\ new_score' = calculate_score(metrics[1], metrics[2], initial_median)
          /\ ~Accepted(new_score' - current_score, draw)
    /\ CoolDown
    /\ UNCHANGED <<initial_graph, max_total_edges, max_edges_per_node,
                   max_iterations, optimized_graph, initial_median,
                   current_graph, current_score, best_graph, best_score,
                   new_graph, num_swaps, swaps, warned, output_file, history,
                   calls, memory>>

\* The loop is over: optimized_graph = best_graph, the final verification
\* and its WARNING, return.
Finish ==
    /\ \/ pc = "loop" /\ ~LoopContinues(iteration)
       \/ pc = "cooled"
    /\ optimized_graph' = best_graph
    /\ IF VerifyRaises(best_graph, max_edges_per_node, max_total_edges)
       THEN pc' = "raised" /\ warned' = warned
       ELSE /\ warned' = FinalWarning(best_graph)
            /\ pc' = "returned"
    /\ UNCHANGED <<initial_graph, max_total_edges, max_edges_per_node,
                   max_iterations, initial_median, current_graph, current_score,
                   best_graph, best_score, temperature, iteration, new_graph,
                   num_swaps, swaps, output_file, history, new_score, calls, memory>>

\* __main__: save_graph(optimized_graph, output_file).
Save ==
    /\ pc = "returned"
    /\ output_file' = optimized_graph
    /\ pc' = "done"
    /\ UNCHANGED <<initial_graph, max_total_edges, max_edges_per_node,
                   max_iterations, optimized_graph, initial_median,
                   current_graph, current_score, best_graph, best_score,
                   temperature, iteration, new_graph, num_swaps, swaps, warned,
                   history, new_score, calls, memory>>

Next ==
    \/ Prune
    \/ StartAnnealing
    \/ BeginModify
    \/ SwapStep
    \/ Skip
    \/ Accept
    \/ Reject
    \/ Finish
    \/ Save

Spec == Init /\ [][Next]_vars

\* ------------------------------------------- verify_constraints on its own

\* The weights of the graphs given to verify_constraints alone: both ends
\* of the legal range and the first illegal weight beyond each.
VerifyWeights == {0, 1, 10, 11}

\* The graphs given to verify_constraints alone: any keys among the node
\* ids and one id that is no node (NUM_NODES), any edges to the node ids.
AnyGraphs ==
    UNION {[K -> Dicts(Nodes, VerifyWeights)] : K \in SUBSET (0 .. NUM_NODES)}

InitVerify ==
    /\ v_graph \in AnyGraphs
    /\ v_result = "none"
    /\ max_total_edges \in 1 .. MaxTotalEdgesBound
    /\ max_edges_per_node \in 1 .. MaxEdgesPerNodeBound
    /\ initial_graph = NoGraph
    /\ max_iterations = 0
    /\ optimized_graph = NoGraph
    /\ initial_median = Inf
    /\ current_graph = NoGraph /\ current_score = NoScore
    /\ best_graph = NoGraph /\ best_score = NoScore
    /\ temperature = <<TEMPERATURE_NUM, TEMPERATURE_DEN>>
    /\ iteration = 0
    /\ new_graph = NoGraph
    /\ num_swaps = 0 /\ swaps = 0
    /\ pc = "call"
    /\ warned = FALSE
    /\ output_file = NoGraph
    /\ start_graph = NoGraph /\ start_score = NoScore
    /\ accepted_max = NoScore /\ accepted_max_graph = NoGraph
    /\ new_score = NoScore
    /\ f_args = <<>> /\ f_result = <<>>
    /\ heap = <<>> /\ refs = <<>>

\* verify_constraints(v_graph, max_edges_per_node, max_total_edges) returns
\* True or False, or raises ValueError.
CallVerify ==
    /\ pc = "call"
    /\ v_result = "none"
    /\ v_result' =
          IF VerifyRaises(v_graph, max_edges_per_node, max_total_edges)
          THEN "ValueError"
          ELSE IF verify_constraints(v_graph, max_edges_per_node, max_total_edges)
               THEN "True"
               ELSE "False"
    /\ pc' = "called"
    /\ UNCHANGED <<initial_graph, max_total_edges, max_edges_per_node,
                   max_iterations, optimized_graph, initial_median,
                   current_graph, current_score, best_graph, best_score,
                   temperature, iteration, new_graph, num_swaps, swaps, warned,
                   output_file, history, v_graph, new_score, f_args,
                   f_result, memory>>

SpecVerify == InitVerify /\ [][CallVerify]_vars

\* ------------------------------- get_metrics, calculate_score on their own

\* No run of optimize_graph: its variables are not assigned.
NoRun ==
    /\ initial_graph = NoGraph
    /\ max_total_edges = 1 /\ max_edges_per_node = 1
    /\ max_iterations = 0
    /\ optimized_graph = NoGraph
    /\ initial_median = Inf
    /\ current_graph = NoGraph /\ current_score = NoScore
    /\ best_graph = NoGraph /\ best_score = NoScore
    /\ temperature = <<TEMPERATURE_NUM, TEMPERATURE_DEN>>
    /\ iteration = 0
    /\ new_graph = NoGraph /\ new_score = NoScore
    /\ num_swaps = 0 /\ swaps = 0
    /\ warned = FALSE
    /\ output_file = NoGraph
    /\ start_graph = NoGraph /\ start_score = NoScore
    /\ accepted_max = NoScore /\ accepted_max_graph = NoGraph
    /\ v_graph = NoGraph /\ v_result = "none"
    /\ heap = <<>> /\ refs = <<>>

\* The variables of a run.
run == <<initial_graph, max_total_edges, max_edges_per_node, max_iterations,
         optimized_graph, initial_median, current_graph, current_score,
         best_graph, best_score, temperature, iteration, new_graph,
         new_score, num_swaps, swaps, warned, output_file, history>>

\* The detailed_results given to get_metrics alone.
InitMetrics ==
    /\ f_args \in SeqsUpTo(Records, MaxCallRecords)
    /\ f_result = <<>>
    /\ pc = "call_metrics"
    /\ NoRun

\* rate, median = get_metrics(...), from the detailed_results f_args.
CallMetrics ==
    /\ pc = "call_metrics"
    /\ f_result' = get_metrics(f_args)
    /\ pc' = "called_metrics"
    /\ UNCHANGED <<run, v_graph, v_result, f_args, memory>>

SpecMetrics == InitMetrics /\ [][CallMetrics]_vars

\* The medians get_metrics may return, doubled.
Medians == {Median2(q) : q \in SeqsUpTo(PathLengths, MaxCallRecords) \ {<<>>}}

\* The (optimized_rate, optimized_median, initial_median) given to
\* calculate_score alone.
InitScore ==
    /\ f_args \in (0 .. RateScale) \X (Medians \cup {Inf}) \X (Medians \cup {Inf})
    /\ f_result = <<>>
    /\ pc = "call_score"
    /\ NoRun

\* combined_score = calculate_score(...), from the metrics f_args.
CallScore ==
    /\ pc = "call_score"
    /\ f_result' = calculate_score(f_args[1], f_args[2], f_args[3])
    /\ pc' = "called_score"
    /\ UNCHANGED <<run, v_graph, v_result, f_args, memory>>

\* calculate_score alone, and in the runs of optimize_graph.
SpecScore == (Init \/ InitScore) /\ [][Next \/ CallScore]_vars

\* ------------------------------------------- the dict objects of the run

\* In this specification a graph is an object: heap maps the id of a dict to
\* its items, the items of a graph being the ids of its nodes' edge dicts,
\* and refs maps a name of the code to the id of the graph it is bound to.
\* "graph" is the parameter of swap_single_edge; new_graph is modify_graph's
\* new_graph, then the loop's.
NameOrder == <<"initial_graph", "initial_edges", "optimized_graph",
               "current_graph", "best_graph", "new_graph", "graph">>

\* The graph held by the object o: nodes, edges and weights.
Contents(h, o) == [n \in DOMAIN h[o] |-> h[h[o][n]]]

\* The graph a name is bound to; NoGraph before its assignment.
Bound(h, r, name) == IF name \in DOMAIN r THEN Contents(h, r[name]) ELSE NoGraph

\* An id no object has.
NewId(h) == CHOOSE i \in 1 .. (Cardinality(DOMAIN h) + 1) : i \notin DOMAIN h

\* h with the items d for the object o, a new object or not.
Alloc(h, o, d) == (o :> d) @@ h

RECURSIVE StoreItems(_, _, _, _)
\* For the nodes S of graph, one by one: c[node] = dict(edges), a new dict
\* with the items of graph[node].
StoreItems(h, c, graph, S) ==
    IF S = {} THEN h
    ELSE LET node == CHOOSE n \in S : TRUE
             e == NewId(h)
             h1 == Alloc(h, e, graph[node])
             h2 == Alloc(h1, c, DictSet(h1[c], node, e))
         IN StoreItems(h2, c, graph, S \ {node})

\* A new graph object with new edge dicts that holds graph; <<heap, id>>.
Store(h, graph) ==
    LET c == NewId(h)
    IN <<StoreItems(Alloc(h, c, <<>>), c, graph, DOMAIN graph), c>>

\* graph.copy(): a new dict with the same edge dicts; <<heap, id>>.
CopyOuter(h, o) == LET c == NewId(h) IN <<Alloc(h, c, h[o]), c>>

\* CopyGraph as a shallow copy: the copy shares the edge dicts.
CopyGraphSharing(h, o) == CopyOuter(h, o)

\* {node: dict(edges) for node, edges in graph.items()}: a new dict with a
\* new edge dict for every node; <<heap, id>>.
CopyGraph(h, o) ==
    Store(h, Contents(h, o))

\* del graph[node][target], graph[node][target] = weight
DelItem(h, o, node, target) ==
    Alloc(h, h[o][node], DictDel(h[h[o][node]], target))
SetItem(h, o, node, target, weight) ==
    Alloc(h, h[o][node], DictSet(h[h[o][node]], target, weight))

RECURSIVE Ascending(_)
\* The numbers of S in ascending order.
Ascending(S) ==
    IF S = {} THEN <<>>
    ELSE LET x == CHOOSE x \in S : \A y \in S : x <= y
         IN <<x>> \o Ascending(S \ {x})

RECURSIVE Reached(_, _, _)
\* The ids reached from the names, from position i of NameOrder on: a
\* graph, then its edge dicts in the order of the nodes.
Reached(h, r, i) ==
    IF i > Len(NameOrder) THEN <<>>
    ELSE IF NameOrder[i] \notin DOMAIN r THEN Reached(h, r, i + 1)
    ELSE LET o == r[NameOrder[i]]
             nodes == Ascending(DOMAIN h[o])
         IN <<o>> \o [k \in 1 .. Len(nodes) |-> h[o][nodes[k]]]
                \o Reached(h, r, i + 1)

RECURSIVE Numbering(_, _, _)
\* The ids of reached from position i on, numbered from 1 in the order of
\* their first places; numbers holds the ids numbered so far.
Numbering(reached, i, numbers) ==
    IF i > Len(reached) THEN numbers
    ELSE IF reached[i] \in DOMAIN numbers
         THEN Numbering(reached, i + 1, numbers)
         ELSE Numbering(reached, i + 1,
                        (reached[i] :> (Cardinality(DOMAIN numbers) + 1)) @@ numbers)

RECURSIVE Renumbered(_, _, _, _)
\* The objects S of h under their new numbers; the items of a graph are
\* ids and are renumbered too.
Renumbered(h, graphs, numbers, S) ==
    IF S = {} THEN <<>>
    ELSE LET o == CHOOSE o \in S : TRUE
         IN (numbers[o] :> (IF o \in graphs
                            THEN [n \in DOMAIN h[o] |-> numbers[h[o][n]]]
                            ELSE h[o]))
            @@ Renumbered(h, graphs, numbers, S \ {o})

\* The objects no name reaches are collected and the others numbered in
\* the order they are reached in: <<heap, refs>>.
Collect(h, r) ==
    LET numbers == Numbering(Reached(h, r, 1), 1, <<>>)
        graphs == {r[name] : name \in DOMAIN r}
    IN << Renumbered(h, graphs, numbers, DOMAIN numbers),
          [name \in DOMAIN r |-> numbers[r[name]]] >>

\* name = the object o
Bind(r, name, o) == [x \in DOMAIN r \cup {name} |-> IF x = name THEN o ELSE r[x]]

\* The next heap and refs.
Becomes(h, r) ==
    LET collected == Collect(h, r)
    IN heap' = collected[1] /\ refs' = collected[2]

\* swap_single_edge(graph) on the objects: the copy, the del and the
\* insertion; the set of <<heap, id of the graph returned>>.
SwapObjects(h, o) ==
    LET copy == CopyGraph(h, o)
        h1 == copy[1]
        c == copy[2]
    IN IF RemovableEdges(Contents(h1, c)) = {} THEN {<<h1, c>>}
       ELSE UNION {
              LET h2 == DelItem(h1, c, e[1], e[2])
                  possible_edges == PossibleEdges(Contents(h2, c))
              IN IF possible_edges # {}
                 THEN {<<SetItem(h2, c, a[1], a[2], initial_graph[a[1]][a[2]]), c>>
                       : a \in possible_edges}
                 ELSE {<<h2, c>>}
              : e \in RemovableEdges(Contents(h1, c))}

\* The variables that hold graphs and scores as values are not used here.
values == <<optimized_graph, initial_median, current_graph, current_score,
            best_graph, best_score, new_graph, new_score, warned,
            output_file, history>>

\* optimize_graph is called with the object initial_graph.
InitObjects ==
    /\ initial_graph \in InitialGraphs
    /\ max_total_edges \in 1 .. MaxTotalEdgesBound
    /\ max_edges_per_node \in 1 .. MaxEdgesPerNodeBound
    /\ max_iterations = MAX_ITERATIONS
    /\ LET stored == Store(<<>>, initial_graph)
           bound == Collect(stored[1], Bind(<<>>, "initial_graph", stored[2]))
       IN heap = bound[1] /\ refs = bound[2]
    /\ optimized_graph = NoGraph
    /\ initial_median = Inf
    /\ current_graph = NoGraph /\ current_score = NoScore
    /\ best_graph = NoGraph /\ best_score = NoScore
    /\ temperature = <<TEMPERATURE_NUM, TEMPERATURE_DEN>>
    /\ iteration = 0
    /\ new_graph = NoGraph /\ new_score = NoScore
    /\ num_swaps = 0 /\ swaps = 0
    /\ pc = "copy"
    /\ warned = FALSE
    /\ output_file = NoGraph
    /\ start_graph = NoGraph /\ start_score = NoScore
    /\ accepted_max = NoScore /\ accepted_max_graph = NoGraph
    /\ v_graph = NoGraph /\ v_result = "none"
    /\ f_args = <<>> /\ f_result = <<>>

\* initial_edges and optimized_graph are copies of initial_graph.
CopyInitial ==
    /\ pc = "copy"
    /\ LET edges == CopyGraph(heap, refs["initial_graph"])
           optimized == CopyGraph(edges[1], refs["initial_graph"])
       IN Becomes(optimized[1],
                  Bind(Bind(refs, "initial_edges", edges[2]),
                       "optimized_graph", optimized[2]))
    /\ pc' = "prune"
    /\ UNCHANGED <<initial_graph, max_total_edges, max_edges_per_node,
                   max_iterations, temperature, iteration, num_swaps, swaps,
                   values, calls>>

\* The base solution deletes edges in the edge dicts of optimized_graph.
PruneObjects ==
    /\ pc = "prune"
    /\ \E pruned \in PruneResults(Bound(heap, refs, "optimized_graph"),
                                  max_total_edges) :
          Becomes([i \in DOMAIN heap |->
                      IF \E n \in DOMAIN pruned : heap[refs["optimized_graph"]][n] = i
                      THEN pruned[CHOOSE n \in DOMAIN pruned :
                                      heap[refs["optimized_graph"]][n] = i]
                      ELSE heap[i]],
                  refs)
    /\ pc' = "anneal"
    /\ UNCHANGED <<initial_graph, max_total_edges, max_edges_per_node,
                   max_iterations, temperature, iteration, num_swaps, swaps,
                   values, calls>>

\* current_graph = optimized_graph.copy(); best_graph = current_graph.copy()
StartObjects ==
    /\ pc = "anneal"
    /\ LET current == CopyOuter(heap, refs["optimized_graph"])
           best == CopyOuter(current[1], current[2])
       IN Becomes(best[1], Bind(Bind(refs, "current_graph", current[2]),
                                "best_graph", best[2]))
    /\ temperature' = <<TEMPERATURE_NUM, TEMPERATURE_DEN>>
    /\ iteration' = 0
    /\ pc' = "loop"
    /\ UNCHANGED <<initial_graph, max_total_edges, max_edges_per_node,
                   max_iterations, num_swaps, swaps, values, calls>>

\* modify_graph(current_graph): new_graph is a copy of graph.
BeginModifyObjects ==
    /\ pc = "loop"
    /\ LoopContinues(iteration)
    /\ LET copy == CopyGraph(heap, refs["current_graph"])
       IN Becomes(copy[1], Bind(refs, "new_graph", copy[2]))
    /\ num_swaps' \in MIN_SWAPS .. MAX_SWAPS
    /\ swaps' = 0
    /\ pc' = "swap"
    /\ UNCHANGED <<initial_graph, max_total_edges, max_edges_per_node,
                   max_iterations, temperature, iteration, values, calls>>

\* new_graph = swap_single_edge(new_graph), then the verifier: modify_graph
\* returns graph, the object of current_graph, when it fails.
SwapStepObjects ==
    /\ pc = "swap"
    /\ \E swap \in SwapObjects(heap, refs["new_graph"]) :
          LET swapped == Contents(swap[1], swap[2])
              called == Bind(refs, "graph", refs["new_graph"])
          IN IF VerifyRaises(swapped, max_edges_per_node, max_total_edges)
             THEN /\ Becomes(swap[1], Bind(called, "new_graph", swap[2]))
                  /\ swaps' = swaps
                  /\ pc' = "raised"
             ELSE IF verify_constraints(swapped, max_edges_per_node, max_total_edges)
             THEN /\ Becomes(swap[1], Bind(called, "new_graph", swap[2]))
                  /\ swaps' = swaps + 1
                  /\ pc' = IF swaps + 1 = num_swaps THEN "evaluate" ELSE "swap"
             ELSE /\ Becomes(swap[1], Bind(called, "new_graph", refs["current_graph"]))
                  /\ swaps' = swaps
                  /\ pc' = "evaluate"
    /\ UNCHANGED <<initial_graph, max_total_edges, max_edges_per_node,
                   max_iterations, temperature, iteration, num_swaps, values,
                   calls>>

\* The candidate fails the verifier: continue.
SkipObjects ==
    /\ pc = "evaluate"
    /\ ~CandidatePasses(Bound(heap, refs, "new_graph"))
    /\ iteration' = iteration + 1
    /\ pc' = "loop"
    /\ UNCHANGED <<initial_graph, max_total_edges, max_edges_per_node,
                   max_iterations, temperature, num_swaps, swaps, values,
                   calls, memory>>

\* current_graph = new_graph and, when the score is a new best (any
\* accepted candidate may be one), best_graph = current_graph.copy().
AcceptObjects ==
    /\ pc = "evaluate"
    /\ CandidatePasses(Bound(heap, refs, "new_graph"))
    /\ \E is_best \in BOOLEAN :
          LET accepted == Bind(refs, "current_graph", refs["new_graph"])
              best == CopyOuter(heap, accepted["current_graph"])
          IN IF is_best
             THEN Becomes(best[1], Bind(accepted, "best_graph", best[2]))
             ELSE Becomes(heap, accepted)
    /\ CoolDown
    /\ UNCHANGED <<initial_graph, max_total_edges, max_edges_per_node,
                   max_iterations, num_swaps, swaps, values, calls>>

\* The candidate is rejected (any candidate may be).
RejectObjects ==
    /\ pc = "evaluate"
    /\ CandidatePasses(Bound(heap, refs, "new_graph"))
    /\ CoolDown
    /\ UNCHANGED <<initial_graph, max_total_edges, max_edges_per_node,
                   max_iterations, num_swaps, swaps, values, calls, memory>>

\* optimized_graph = best_graph, and the return.
FinishObjects ==
    /\ \/ pc = "loop" /\ ~LoopContinues(iteration)
       \/ pc = "cooled"
    /\ Becomes(heap, Bind(refs, "optimized_graph", refs["best_graph"]))
    /\ pc' = "returned"
    /\ UNCHANGED <<initial_graph, max_total_edges, max_edges_per_node,
                   max_iterations, temperature, iteration, num_swaps, swaps,
                   values, calls>>

NextObjects ==
    \/ CopyInitial
    \/ PruneObjects
    \/ StartObjects
    \/ BeginModifyObjects
    \/ SwapStepObjects
    \/ SkipObjects
    \/ AcceptObjects
    \/ RejectObjects
    \/ FinishObjects

SpecObjects == InitObjects /\ [][NextObjects]_vars

\* ------------------------------------------------------------------ claims

\* The graph passes verify_constraints under the run's limits.
Valid(graph) ==
    /\ DOMAIN graph # {}
    /\ verify_constraints(graph, max_edges_per_node, max_total_edges)

\* The annealing loop has been set up.
InLoop == pc \in {"loop", "swap", "evaluate", "cooled"}
Returned == pc \in {"returned", "done"}

\* C1: modify_graph never returns a partially-applied or invalid graph: every
\* graph it carries between two swaps passed the verifier, a batch cut short
\* by a verifier failure returns its input, a completed batch returns a graph
\* that passes the verifier; so for a valid input the result is valid or has
\* exactly the input's edges and weights.
C1_BatchValidOrUnchanged ==
    /\ (pc = "swap" /\ swaps > 0) => Valid(new_graph)
    /\ pc = "evaluate" =>
          IF swaps < num_swaps THEN new_graph = current_graph
          ELSE Valid(new_graph)
    /\ (pc = "evaluate" /\ Valid(current_graph)) =>
          \/ Valid(new_graph)
          \/ EdgeSet(new_graph) = EdgeSet(current_graph)

\* C1 witness: a batch on a valid graph was abandoned after a first swap
\* that passed.
C1_Witness ==
    /\ pc = "evaluate"
    /\ Valid(current_graph)
    /\ 0 < swaps /\ swaps < num_swaps

\* C2: the loop scores or keeps a candidate only if it passed the verifier
\* (a step of the loop that scores the candidate - it cools, or changes
\* current or best - has a valid candidate); so current and best are valid or
\* still the starting graph, and the returned graph is valid when the
\* starting graph is.
C2_OnlyVerifiedKept ==
    /\ [](InLoop \/ Returned =>
            /\ Valid(current_graph) \/ current_graph = start_graph
            /\ Valid(best_graph) \/ best_graph = start_graph)
    /\ []((Returned /\ Valid(start_graph)) => Valid(optimized_graph))
    /\ [][(/\ pc = "evaluate"
           /\ \/ temperature' # temperature
              \/ current_graph' # current_graph
              \/ current_score' # current_score
              \/ best_graph' # best_graph
              \/ best_score' # best_score)
          => Valid(new_graph)]_vars

\* C2 witness: an accepted candidate, different from the starting graph, is
\* current and best, and was returned.
C2_Witness ==
    /\ Returned
    /\ Valid(start_graph)
    /\ optimized_graph # start_graph
    /\ current_graph = optimized_graph

\* C3: best_score never decreases from one state to the next.
C3_BestScoreNeverDecreases == [][best_score' >= best_score]_vars

\* C3 witness: the best score rose above the starting score and was kept
\* while the current score fell below it.
C3_Witness ==
    /\ InLoop
    /\ best_score > start_score
    /\ current_score < best_score

\* C4: best_score >= current_score, best_score is the largest of the
\* starting score and the scores of the accepted candidates, and best_graph
\* is the graph that was current when that score was recorded.
C4_BestIsMaxAccepted ==
    (InLoop \/ Returned) =>
        /\ best_score >= current_score
        /\ best_score = accepted_max
        /\ best_graph = accepted_max_graph

\* C4 witness: the best graph is neither the starting graph nor the current
\* one, and its score is above the current score.
C4_Witness ==
    /\ InLoop
    /\ best_graph # start_graph
    /\ best_graph # current_graph
    /\ best_score > current_score

\* C5: every edge of the candidate, current, best, returned and saved graph
\* is an edge of the input graph, with the input graph's weight.
C5_OnlyOriginalEdges ==
    \A graph \in {new_graph, current_graph, best_graph, optimized_graph,
                  output_file} :
        EdgeSet(graph) \subseteq EdgeSet(initial_graph)

\* C5 witness: a swap inserted an edge that the starting graph does not have.
C5_Witness ==
    /\ pc \in {"swap", "evaluate"}
    /\ swaps > 0
    /\ ~(EdgeSet(new_graph) \subseteq EdgeSet(start_graph))

\* The three bounds of the verifier, stated on the edge set.
WithinBounds(graph) ==
    /\ Cardinality(EdgeSet(graph)) <= max_total_edges
    /\ \A n \in DOMAIN graph :
          Cardinality({e \in EdgeSet(graph) : e[1] = n}) <= max_edges_per_node
    /\ \A e \in EdgeSet(graph) : 0 < e[3] /\ e[3] <= 10

\* C6: an accepted graph has at most max_total_edges edges, at most
\* max_edges_per_node edges per node and every weight in (0, 10]; and a graph
\* with exactly NUM_NODES nodes within these three bounds is accepted.
C6_AcceptedIffWithinBounds ==
    /\ v_result = "True" => WithinBounds(v_graph)
    /\ (/\ v_result # "none"
        /\ Cardinality(DOMAIN v_graph) = NUM_NODES
        /\ WithinBounds(v_graph)) => v_result = "True"

\* C6 witness: a graph at the total-edge limit with a weight of 10 was
\* accepted.
C6_Witness ==
    /\ v_result = "True"
    /\ Cardinality(EdgeSet(v_graph)) = max_total_edges
    /\ \E e \in EdgeSet(v_graph) : e[3] = 10

\* C7: an accepted graph has exactly the keys 0 .. NUM_NODES - 1.
C7_AcceptedNodeSetIsRange ==
    v_result = "True" => DOMAIN v_graph = Nodes

\* C8: verify_constraints returns False, and does not raise, for every graph
\* (the graph with no node too) that breaks a check.
C8_RejectsWithoutRaising ==
    (/\ v_result # "none"
     /\ \/ Cardinality(DOMAIN v_graph) # NUM_NODES
        \/ ~WithinBounds(v_graph)) => v_result = "False"

\* C9: with an iteration budget of 0 the returned graph is the starting
\* graph, edges and weights, and best_score is the score computed for it
\* before the loop.
C9_ZeroBudgetReturnsStart ==
    (Returned /\ max_iterations = 0) =>
        /\ optimized_graph = start_graph
        /\ EdgeSet(optimized_graph) = EdgeSet(start_graph)
        /\ best_score = start_score

\* C9 witness: a run with budget 0 returned a graph that has edges.
C9_Witness ==
    /\ pc = "returned"
    /\ max_iterations = 0
    /\ EdgeSet(optimized_graph) # {}
    /\ best_score > 0

\* C10: a returned graph that fails verify_constraints was reported by the
\* WARNING before it was returned and saved.
C10_InvalidResultReported ==
    (Returned /\ ~Valid(optimized_graph)) => warned

\* C10 witness: the starting graph was invalid, and the graph saved fails
\* the verifier and was reported.
C10_Witness ==
    /\ pc = "done"
    /\ ~Valid(start_graph)
    /\ output_file = optimized_graph
    /\ ~Valid(output_file)
    /\ warned

\* The successful records of details, and those with a finite path length.
Successes(details) == {i \in 1 .. Len(details) : details[i].success}
FiniteSuccesses(details) ==
    {i \in Successes(details) : details[i].median_path_length # Inf}

\* The k-th smallest path length of the records I of details.
RankLength(details, I, k) ==
    CHOOSE x \in {details[i].median_path_length : i \in I} :
        /\ Cardinality({i \in I : details[i].median_path_length < x}) < k
        /\ Cardinality({i \in I : details[i].median_path_length <= x}) >= k

\* C11: get_metrics returns the rate successes / records, 0 without records,
\* and the median of the finite path lengths of the successful records,
\* infinity when there is none; the records (success, 2), (success, 2),
\* (fail) give rate 2/3 and median 2.
C11_MetricsAreRateAndMedian ==
    pc = "called_metrics" =>
        LET details == f_args
            rate == f_result[1]
            median == f_result[2]
            I == FiniteSuccesses(details)
            n == Cardinality(I)
        IN /\ details = <<>> => rate = 0
           /\ rate * Len(details) = Cardinality(Successes(details)) * RateScale
           /\ I = {} => median = Inf
           /\ I # {} => median = RankLength(details, I, (n + 1) \div 2)
                                  + RankLength(details, I, (n + 2) \div 2)
           /\ (/\ Len(details) = 3
               /\ \A i \in {1, 2} : details[i] = [success |-> TRUE, median_path_length |-> 2]
               /\ ~details[3].success)
              => 3 * rate = 2 * RateScale /\ median = 2 * 2

\* C11 witness: get_metrics returned for (success, 2), (success, 2) and a
\* failed record with path length 1.
C11_Witness ==
    /\ pc = "called_metrics"
    /\ f_args = << [success |-> TRUE, median_path_length |-> 2],
                   [success |-> TRUE, median_path_length |-> 2],
                   [success |-> FALSE, median_path_length |-> 1] >>
    /\ 3 * f_result[1] = 2 * RateScale
    /\ f_result[2] = 4

\* The scoring rules for the rate and median of a candidate and the median
\* of the baseline, in order.
RuleScore(rate, median, baseline) ==
    CASE rate = 0 -> 0
      [] rate # 0 /\ (baseline = Inf \/ median = Inf) -> rate * 1000
      [] OTHER -> rate * 1000 + rate * Log1pMilli(baseline, median)

\* C12: the score is 0 for rate 0, else the rate when the baseline median or
\* the candidate median is infinite, else rate * (1 + ln(1 + baseline /
\* candidate)), never below the rate; the baseline median is set once,
\* before the loop, and every candidate is scored against it.
C12_ScoringRules ==
    /\ [](pc = "called_score" =>
            /\ f_result = RuleScore(f_args[1], f_args[2], f_args[3])
            /\ f_result >= f_args[1] * 1000
            /\ f_args[1] = 0 => f_result = 0)
    /\ [](new_score # NoScore =>
            \E metrics \in RunMetrics :
                new_score = RuleScore(metrics[1], metrics[2], initial_median))
    /\ [][initial_median' # initial_median => pc = "anneal"]_vars

\* C12 witness: a candidate with full rate and half the baseline's median
\* was scored rate * (1 + ln 3).
C12_Witness ==
    /\ pc = "called_score"
    /\ f_args = <<RateScale, 2, 4>>
    /\ f_result = RateScale * 2099

\* Every node with an edge in the starting graph has an edge in graph.
KeepsOutEdges(graph) ==
    \A n \in DOMAIN start_graph :
        DictLen(start_graph[n]) >= 1 => DictLen(graph[n]) >= 1

\* C13: a removal never leaves a node without outgoing edges: every node
\* with an outgoing edge in the starting graph has one in every candidate,
\* current and best graph; and a swap of a graph in which no node has more
\* than one edge returns the graph unchanged.
C13_NoNodeLosesLastEdge ==
    /\ [](/\ KeepsOutEdges(current_graph)
          /\ KeepsOutEdges(best_graph)
          /\ new_graph = NoGraph \/ KeepsOutEdges(new_graph))
    /\ [][(/\ pc = "swap"
           /\ \A n \in DOMAIN new_graph : DictLen(new_graph[n]) <= 1)
          => new_graph' = new_graph]_vars

\* C13 witness: a batch of swaps took an edge from a node with two edges,
\* which is left with one edge.
C13_Witness ==
    /\ pc = "evaluate"
    /\ swaps = num_swaps
    /\ \E n \in DOMAIN current_graph :
          /\ DictLen(current_graph[n]) = 2
          /\ DictLen(new_graph[n]) = 1

\* The graph a name is bound to after the step.
BoundNext(name) == Bound(heap', refs', name)

\* C14: swap_single_edge and modify_graph never change the graph they are
\* given, and the contents of the original graph, of current and of best
\* change only by their own assignments: the original never, current only
\* to the accepted candidate, best only to a copy of the accepted candidate;
\* building or discarding a candidate changes none of them.
C14_PublishedGraphsImmutable ==
    [][/\ pc = "swap" =>
             BoundNext("graph") = Bound(heap, refs, "new_graph")
       /\ pc # "copy" =>
             /\ BoundNext("initial_graph") = Bound(heap, refs, "initial_graph")
             /\ BoundNext("initial_edges") = Bound(heap, refs, "initial_edges")
       /\ pc \in {"loop", "swap", "evaluate"} =>
             /\ \/ BoundNext("current_graph") = Bound(heap, refs, "current_graph")
                \/ /\ pc = "evaluate"
                   /\ BoundNext("current_graph") = Bound(heap, refs, "new_graph")
             /\ \/ BoundNext("best_graph") = Bound(heap, refs, "best_graph")
                \/ /\ pc = "evaluate"
                   /\ BoundNext("best_graph") = Bound(heap, refs, "new_graph")
                   /\ BoundNext("current_graph") = BoundNext("best_graph")
       /\ (\/ pc \in {"loop", "swap"}
           \/ /\ pc = "evaluate"
              /\ ~verify_constraints(Bound(heap, refs, "new_graph"),
                                     max_edges_per_node, max_total_edges)) =>
             /\ BoundNext("current_graph") = Bound(heap, refs, "current_graph")
             /\ BoundNext("best_graph") = Bound(heap, refs, "best_graph")]_vars

\* C14 witness: best_graph is a shallow copy of the accepted candidate (it
\* shares the edge dicts of current_graph) while a different candidate has
\* been built from current_graph.
C14_Witness ==
    /\ pc = "evaluate"
    /\ iteration > 0
    /\ refs["best_graph"] # refs["current_graph"]
    /\ heap[refs["best_graph"]] = heap[refs["current_graph"]]
    /\ Bound(heap, refs, "current_graph") # Bound(heap, refs, "optimized_graph")
    /\ swaps = num_swaps
    /\ Bound(heap, refs, "new_graph") # Bound(heap, refs, "current_graph")

\* C15: an iteration whose candidate fails verify_constraints changes
\* nothing but the iteration counter: temperature, current, current score,
\* best and best score stay, no score is computed, and the loop goes on.
C15_SkippedIterationIsNoOp ==
    [][(/\ pc = "evaluate"
        /\ ~verify_constraints(new_graph, max_edges_per_node, max_total_edges))
       => /\ iteration' = iteration + 1
          /\ pc' = "loop"
          /\ UNCHANGED <<temperature, current_graph, current_score,
                         best_graph, best_score, new_score, new_graph,
                         optimized_graph, initial_graph, warned>>]_vars

\* C15 witness: the first iteration was skipped: the counter advanced, the
\* temperature is the initial one and no candidate was scored.
C15_Witness ==
    /\ pc = "loop"
    /\ iteration = 1
    /\ DOMAIN new_graph # {}
    /\ ~verify_constraints(new_graph, max_edges_per_node, max_total_edges)
    /\ temperature = <<TEMPERATURE_NUM, TEMPERATURE_DEN>>
    /\ new_score = NoScore

\* C16: the loop always reaches Cooled or Exhausted, after at most
\* max_iterations iterations: the counter never passes the budget, Cooled is
\* entered exactly below the minimum temperature, and the run never stops
\* inside the loop before one of the two.
C16_LoopReachesTerminalState ==
    /\ iteration <= max_iterations
    /\ InLoop => (pc = "cooled" <=> BelowMin(temperature))
    /\ pc = "raised" => ~LoopContinues(iteration)

\* The candidate under evaluation passes verify_constraints.
CandidateValid ==
    /\ pc = "evaluate"
    /\ verify_constraints(new_graph, max_edges_per_node, max_total_edges)

\* C17: a valid candidate with a score above current_score is always
\* accepted; current and current_score change in no other way after the
\* set-up of the loop; and a rejection, which happens to a lower score only,
\* leaves current, current_score, best and best_score unchanged while the
\* temperature cools.
C17_AcceptanceRule ==
    [][/\ (CandidateValid /\ new_score' > current_score) =>
             /\ current_graph' = new_graph
             /\ current_score' = new_score'
       /\ (current_graph' # current_graph \/ current_score' # current_score) =>
             \/ pc = "anneal"
             \/ /\ CandidateValid
                /\ current_graph' = new_graph
                /\ current_score' = new_score'
       /\ (CandidateValid /\ current_score' # new_score') =>
             /\ new_score' < current_score
             /\ UNCHANGED <<current_graph, current_score, best_graph, best_score>>
             /\ temperature' = Cool(temperature)]_vars

\* C17 witness: a candidate with a lower score was rejected and the
\* temperature cooled.
C17_Witness ==
    /\ pc = "loop"
    /\ iteration = 1
    /\ new_score # NoScore
    /\ new_score < current_score
    /\ current_score = start_score
    /\ temperature = Cool(<<TEMPERATURE_NUM, TEMPERATURE_DEN>>)

\* C18: when the initial graph has more than max_total_edges edges, the
\* graph the pruning pass hands to the annealing loop has at most
\* max_total_edges edges.
C18_PruningMeetsEdgeLimit ==
    (pc = "anneal" /\ TotalEdges(initial_graph) > max_total_edges) =>
        TotalEdges(optimized_graph) <= max_total_edges

\* Every weight of the graph is in (0, 10].
LegalWeights(graph) == \A e \in EdgeSet(graph) : e[3] > 0 /\ e[3] <= 10

C20_EdgeCountConserved ==
    /\ (pc = "swap" /\ Valid(new_graph)) =>
          \A swapped \in swap_single_edge(new_graph) :
              Cardinality(EdgeSet(swapped)) = Cardinality(EdgeSet(new_graph))
    /\ Valid(start_graph) =>
          /\ TotalEdges(current_graph) = TotalEdges(start_graph)
          /\ TotalEdges(best_graph) = TotalEdges(start_graph)
          /\ pc \in {"swap", "evaluate"} =>
                TotalEdges(new_graph) = TotalEdges(start_graph)
    /\ TotalEdges(current_graph) <= TotalEdges(start_graph)
    /\ TotalEdges(best_graph) <= TotalEdges(start_graph)
    /\ pc \in {"swap", "evaluate"} =>
          TotalEdges(new_graph) <= TotalEdges(start_graph)

\* C20 witness: a swap removed an edge of a valid graph and added another
\* edge, of another node.
C20_Witness ==
    /\ pc = "evaluate"
    /\ Valid(start_graph)
    /\ swaps = 1
    /\ num_swaps = 1
    /\ Cardinality(EdgeSet(new_graph)) = Cardinality(EdgeSet(current_graph))
    /\ \E n \in DOMAIN new_graph :
          DictLen(new_graph[n]) > DictLen(current_graph[n])

====
